---- MODULE Spec2Model ----
(***************************************************************************)
(* A model of the dogma-black/black repository:                            *)
(*   - AgentesBlack/adk_project/app_agent/agent.py   (startup check, CLI)   *)
(*   - AgentesBlack/adk_project/callback_logging.py  (log sink, hooks)      *)
(*   - AgentesBlack/adk_project/llm_auditor/agent.py (critic -> reviser)    *)
(*   - Central black/centralblack-backend/main.py    (HTTP stub)            *)
(*                                                                         *)
(* Python values are modelled as follows.  An Optional value is a record   *)
(* [some, v]: None is [some |-> FALSE].  A string whose characters matter  *)
(* (str.lower, str.upper, encoding) is a sequence of one-character         *)
(* strings; other strings are TLA+ strings.                                *)
(***************************************************************************)
EXTENDS Integers, Sequences, FiniteSets, TLC

VARIABLES
    \* ---- app_agent/agent.py, module level (lines 19-39)
    environ,        \* os.environ: variable name -> Optional character string
    dotenv,         \* the .env file: variable name -> Optional character string
    startPc,        \* position in the module-level code
    missing_vars,   \* the list built at lines 25-33
    startError      \* the ValueError raised at line 36 (Optional list of names)

startVars == <<environ, dotenv, startPc, missing_vars, startError>>

VARIABLES
    \* ---- llm_auditor/agent.py: one use of the llm_auditor pipeline
    pipePc,         \* "idle", "running", "done" or "failed"
    pipeIdx,        \* index in sub_agents of the stage to run next
    invoked,        \* the stages invoked in the current run, in order
    session,        \* the run's conversation: events [author, text]
    pipeRuns        \* how many runs were started

pipeVars == <<pipePc, pipeIdx, invoked, session, pipeRuns>>

VARIABLES
    \* ---- callback_logging.py: the sink and the two hooks around a model call
    sinkOpens,      \* times google.cloud.logging.Client() was created
    sinkCloses,     \* times cloud_logging_client.close() was called
    log,            \* the lines logging.info handed to the sink, in order
    hookPc,         \* "idle" or, after a hook was called, "called"
    lastHook        \* the last hook call: its arguments and what it did

sinkVars == <<sinkOpens, sinkCloses>>
hookVars == <<log, hookPc, lastHook>>

VARIABLES
    \* ---- app_agent/agent.py: main and run_prompt
    cliPc,          \* position in main / run_prompt
    argv,           \* sys.argv[1:]
    stdout,         \* the lines printed, in order
    yielded,        \* the events runner.run_async has yielded so far
    handled,        \* how many of them run_prompt's loop body finished
    modelCalls,     \* model calls the framework made during the run
    cliError        \* the exception that ended the process ("" for none)

cliVars == <<cliPc, argv, stdout, yielded, handled, modelCalls, cliError>>

VARIABLES
    \* ---- centralblack-backend/main.py: the HTTP stub
    stdoutEncoding, \* the encoding of the server's standard output
    earlier,        \* an earlier exchange, kept to compare the latest with
    latest          \* the latest exchange: the body sent and what came of it

httpVars == <<stdoutEncoding, earlier, latest>>

vars == <<startVars, pipeVars, sinkVars, hookVars, cliVars, httpVars>>

\* What an action of one component leaves alone.
exceptStart == <<pipeVars, sinkVars, hookVars, cliVars, httpVars>>
exceptPipe == <<startVars, sinkVars, hookVars, cliVars, httpVars>>
exceptHooks == <<startVars, pipeVars, sinkVars, cliVars, httpVars>>
exceptHttp == <<startVars, pipeVars, sinkVars, hookVars, cliVars>>

----------------------------------------------------------------------------
(* Python helpers *)

None == [some |-> FALSE, v |-> <<>>]
Some(x) == [some |-> TRUE, v |-> x]

\* Truthiness of an Optional string: None and "" are falsy.
Truthy(o) == o.some /\ o.v # <<>>

\* The same for values whose text is a TLA+ string.
NoneStr == [some |-> FALSE, v |-> ""]
TruthyStr(o) == o.some /\ o.v # ""

\* lst[i] with Python's indices (0 is the first item, -1 the last) raises on
\* None (TypeError) and out of range (IndexError).
ItemRaises(lst, i) ==
    \/ ~lst.some
    \/ (i >= 0 /\ i + 1 > Len(lst.v))
    \/ (i < 0 /\ -i > Len(lst.v))

Item(lst, i) == IF i >= 0 THEN lst.v[i + 1] ELSE lst.v[Len(lst.v) + 1 + i]

\* str(x) of an Optional value whose own text stands for itself.
Str(o) == IF o.some THEN o.v ELSE "None"

\* str.lower() on one character (the letters the model uses).
LowerChar(c) ==
    CASE c = "T" -> "t"
      [] c = "R" -> "r"
      [] c = "U" -> "u"
      [] c = "E" -> "e"
      [] c = "Y" -> "y"
      [] c = "S" -> "s"
      [] OTHER -> c

\* str.lower()
Lower(s) == [i \in 1..Len(s) |-> LowerChar(s[i])]

----------------------------------------------------------------------------
(* app_agent/agent.py: environment validation *)

EnvNames == {"GOOGLE_GENAI_USE_VERTEXAI", "MODEL",
             "GOOGLE_CLOUD_PROJECT", "GOOGLE_CLOUD_LOCATION"}

\* os.getenv(name, default)
getenv(env, name, default) == IF env[name].some THEN env[name] ELSE default

\* load_dotenv(): python-dotenv with override=False sets only the variables
\* that are not in os.environ yet (a variable set to "" is in os.environ).
load_dotenv(env, file) ==
    [n \in EnvNames |-> IF env[n].some THEN env[n] ELSE file[n]]

\* Line 21: the toggle, "1" when unset.
google_genai_use_vertexai(env) ==
    getenv(env, "GOOGLE_GENAI_USE_VERTEXAI", Some(<<"1">>)).v

\* Line 29: the toggle's spellings that enable the hosted backend.
VertexEnabledLiterals ==
    { <<"t", "r", "u", "e">>, <<"1">>, <<"y", "e", "s">> }

\* A variant that compares the toggle without lower-casing it.
UsesVertexMutNoLower(env) ==
    google_genai_use_vertexai(env) \in VertexEnabledLiterals

UsesVertex(env) ==
    Lower(google_genai_use_vertexai(env)) \in VertexEnabledLiterals

\* Lines 25-33: the list of missing names, in the order the code appends them.
ComputeMissing(env) ==
    (IF ~Truthy(getenv(env, "MODEL", None)) THEN <<"MODEL">> ELSE <<>>)
    \o (IF UsesVertex(env)
        THEN (IF ~Truthy(getenv(env, "GOOGLE_CLOUD_PROJECT", None))
              THEN <<"GOOGLE_CLOUD_PROJECT">> ELSE <<>>)
             \o (IF ~Truthy(getenv(env, "GOOGLE_CLOUD_LOCATION", None))
                 THEN <<"GOOGLE_CLOUD_LOCATION">> ELSE <<>>)
        ELSE <<>>)

\* The values a variable takes in the process environment and in .env.
PlainValues == { None, Some(<<>>), Some(<<"x">>) }

ToggleValues ==
    { None, Some(<<>>), Some(<<"1">>), Some(<<"0">>),
      Some(<<"t", "r", "u", "e">>), Some(<<"T", "r", "u", "e">>),
      Some(<<"Y", "E", "S">>), Some(<<"f", "a", "l", "s", "e">>) }

DotenvToggleValues == { None, Some(<<"0">>), Some(<<"y", "e", "s">>) }

Environments ==
    { e \in [EnvNames -> PlainValues \cup ToggleValues] :
        \A n \in EnvNames \ {"GOOGLE_GENAI_USE_VERTEXAI"} : e[n] \in PlainValues }

DotenvFiles ==
    { e \in [EnvNames -> PlainValues \cup DotenvToggleValues] :
        /\ e["GOOGLE_GENAI_USE_VERTEXAI"] \in DotenvToggleValues
        /\ \A n \in EnvNames \ {"GOOGLE_GENAI_USE_VERTEXAI"} : e[n] \in PlainValues }

\* The pipeline before its first use.
PipeIdle ==
    /\ pipePc = "idle"
    /\ pipeIdx = 1
    /\ invoked = <<>>
    /\ session = <<>>
    /\ pipeRuns = 0

\* The sink and the hooks before callback_logging is imported.
NoHookCall ==
    [hook |-> "none", agent |-> "", arg |-> None, argAfter |-> None,
     raised |-> FALSE, ret |-> "None", lines |-> <<>>, logBefore |-> <<>>]

SinkUnused ==
    /\ sinkOpens = 0
    /\ sinkCloses = 0

HooksIdle ==
    /\ log = <<>>
    /\ hookPc = "idle"
    /\ lastHook = NoHookCall

\* main has not started.
CliIdle ==
    /\ cliPc = "not_started"
    /\ argv = <<>>
    /\ stdout = <<>>
    /\ yielded = <<>>
    /\ handled = 0
    /\ modelCalls = 0
    /\ cliError = ""

\* The HTTP stub is another program; it has served nothing.
NoExchange ==
    [served |-> FALSE, body |-> [json |-> FALSE],
     outcome |-> [status |-> 0], ran |-> FALSE, raised |-> "",
     printed |-> <<>>]

HttpIdle ==
    /\ stdoutEncoding = "utf-8"
    /\ earlier = NoExchange
    /\ latest = NoExchange

InitStartup ==
    /\ PipeIdle
    /\ SinkUnused
    /\ HooksIdle
    /\ CliIdle
    /\ HttpIdle
    /\ environ \in Environments
    /\ dotenv \in DotenvFiles
    /\ startPc = "import_callback_logging"
    /\ missing_vars = <<>>
    /\ startError = None

\* callback_logging.py, lines 8-9: the module body creates the client and
\* runs once, on the first import (later imports find it in sys.modules).
import_callback_logging(opens) == IF opens = 0 THEN 1 ELSE opens

\* Lines 14-16: the first import of callback_logging opens the sink.
ImportCallbackLogging ==
    /\ startPc = "import_callback_logging"
    /\ sinkOpens' = import_callback_logging(sinkOpens)
    /\ startPc' = "import_llm_auditor"
    /\ UNCHANGED <<environ, dotenv, missing_vars, startError, sinkCloses,
                   pipeVars, hookVars, cliVars, httpVars>>

\* Line 17: llm_auditor/agent.py (line 22) imports callback_logging again.
ImportLlmAuditor ==
    /\ startPc = "import_llm_auditor"
    /\ sinkOpens' = import_callback_logging(sinkOpens)
    /\ startPc' = "load_dotenv"
    /\ UNCHANGED <<environ, dotenv, missing_vars, startError, sinkCloses,
                   pipeVars, hookVars, cliVars, httpVars>>

\* Line 20.
LoadDotenv ==
    /\ startPc = "load_dotenv"
    /\ environ' = load_dotenv(environ, dotenv)
    /\ startPc' = "validate"
    /\ UNCHANGED <<dotenv, missing_vars, startError, exceptStart>>

\* Lines 21-39, no variable missing: the module goes on to define main.
ValidateOk ==
    /\ startPc = "validate"
    /\ ComputeMissing(environ) = <<>>
    /\ missing_vars' = <<>>
    /\ startPc' = "validated"
    /\ UNCHANGED <<environ, dotenv, startError, exceptStart>>

\* Lines 21-39, some variable missing: one ValueError naming them all.
ValidateRaise ==
    /\ startPc = "validate"
    /\ ComputeMissing(environ) # <<>>
    /\ missing_vars' = ComputeMissing(environ)
    /\ startError' = Some(ComputeMissing(environ))
    /\ startPc' = "raised"
    /\ UNCHANGED <<environ, dotenv, exceptStart>>

NextStartup ==
    \/ ImportCallbackLogging
    \/ ImportLlmAuditor
    \/ LoadDotenv
    \/ ValidateOk
    \/ ValidateRaise

SpecStartup == InitStartup /\ [][NextStartup]_vars

----------------------------------------------------------------------------
(* C1 *)

\* What the claim calls enabled: unset counts as enabled, and so does any
\* spelling of true, 1 or yes.
ToggleEnabled(env) ==
    \/ ~env["GOOGLE_GENAI_USE_VERTEXAI"].some
    \/ env["GOOGLE_GENAI_USE_VERTEXAI"].v \in
         { <<"1">>, <<"t", "r", "u", "e">>, <<"T", "r", "u", "e">>,
           <<"y", "e", "s">>, <<"Y", "E", "S">> }

Absent(env, n) == ~env[n].some \/ env[n].v = <<>>

RequiredNames(env) ==
    {"MODEL"} \cup (IF ToggleEnabled(env)
                    THEN {"GOOGLE_CLOUD_PROJECT", "GOOGLE_CLOUD_LOCATION"}
                    ELSE {})

MissingRequired(env) == { n \in RequiredNames(env) : Absent(env, n) }

SeqRange(s) == { s[i] : i \in 1..Len(s) }

\* C1: once the startup check has run, an error is raised exactly when some
\* required variable is absent, and the one error names exactly the absent
\* required variables, each once.
C1_ReportsExactlyMissing ==
    startPc \in {"validated", "raised"} =>
        /\ (startPc = "raised") = (MissingRequired(environ) # {})
        /\ startError.some = (startPc = "raised")
        /\ startPc = "raised" =>
              /\ SeqRange(startError.v) = MissingRequired(environ)
              /\ Len(startError.v) = Cardinality(MissingRequired(environ))
        /\ startPc = "validated" => missing_vars = <<>>

\* A run in which the toggle is enabled by a mixed-case spelling and two of
\* the three required variables are reported together.
C1_Witness ==
    /\ startPc = "raised"
    /\ environ["GOOGLE_GENAI_USE_VERTEXAI"] = Some(<<"T", "r", "u", "e">>)
    /\ startError.v = <<"MODEL", "GOOGLE_CLOUD_LOCATION">>

----------------------------------------------------------------------------
(* llm_auditor/agent.py: the critic -> reviser pipeline *)

MaxPipelineRuns == 3

\* A variant with the two stages listed the other way round.
sub_agents_MutReversed == <<"reviser_agent", "critic_agent">>

\* Line 34: the stages, in the order SequentialAgent runs them.
sub_agents == <<"critic_agent", "reviser_agent">>

\* What the pipeline is asked to check, and what a stage may answer.
Statements == {"s1", "s2", "s3"}

StageOutputs(agent) ==
    IF agent = "critic_agent" THEN {"accurate", "inaccurate"}
    ELSE {"unchanged", "corrected"}

\* A start state of the process that only uses the pipeline.
StartupDone ==
    /\ environ = [n \in EnvNames |-> Some(<<"x">>)]
    /\ dotenv = [n \in EnvNames |-> None]
    /\ startPc = "validated"
    /\ missing_vars = <<>>
    /\ startError = None

InitPipeline ==
    /\ StartupDone
    /\ SinkUnused
    /\ HooksIdle
    /\ CliIdle
    /\ HttpIdle
    /\ PipeIdle

\* The framework starts llm_auditor on a statement (a fresh run each time).
PipelineStart ==
    /\ pipePc \in {"idle", "done", "failed"}
    /\ pipeRuns < MaxPipelineRuns
    /\ \E st \in Statements :
          session' = << [author |-> "user", text |-> st] >>
    /\ pipePc' = "running"
    /\ pipeIdx' = 1
    /\ invoked' = <<>>
    /\ pipeRuns' = pipeRuns + 1
    /\ UNCHANGED exceptPipe

\* SequentialAgent runs the next stage of sub_agents to completion; the
\* stage reads the conversation so far and appends its answer to it.
StageRun ==
    /\ pipePc = "running"
    /\ pipeIdx <= Len(sub_agents)
    /\ invoked' = Append(invoked, sub_agents[pipeIdx])
    /\ \E out \in StageOutputs(sub_agents[pipeIdx]) :
          session' = Append(session,
                            [author |-> sub_agents[pipeIdx], text |-> out])
    /\ pipeIdx' = pipeIdx + 1
    /\ UNCHANGED <<pipePc, pipeRuns, exceptPipe>>

\* The next stage is invoked and its model call fails: nothing retries, the
\* exception ends the run.
StageRaise ==
    /\ pipePc = "running"
    /\ pipeIdx <= Len(sub_agents)
    /\ invoked' = Append(invoked, sub_agents[pipeIdx])
    /\ pipePc' = "failed"
    /\ UNCHANGED <<pipeIdx, session, pipeRuns, exceptPipe>>

\* No stage is left: the run is complete.
PipelineFinish ==
    /\ pipePc = "running"
    /\ pipeIdx > Len(sub_agents)
    /\ pipePc' = "done"
    /\ UNCHANGED <<pipeIdx, invoked, session, pipeRuns, exceptPipe>>

NextPipeline ==
    \/ PipelineStart
    \/ StageRun
    \/ StageRaise
    \/ PipelineFinish

SpecPipeline == InitPipeline /\ [][NextPipeline]_vars

----------------------------------------------------------------------------
(* C2 *)

\* C2: in every run the stages invoked so far are critic, or critic then
\* reviser (so the reviser never runs before or without the critic, no stage
\* runs twice and nothing follows the reviser); a completed run has invoked
\* both, and the reviser's turn comes only with the critic's answer in the
\* conversation.
C2_CriticThenReviser ==
    /\ invoked \in { <<>>, <<"critic_agent">>,
                      <<"critic_agent", "reviser_agent">> }
    /\ pipePc = "done" => invoked = <<"critic_agent", "reviser_agent">>
    /\ (Len(invoked) = 2 /\ pipePc # "failed") =>
           /\ Len(session) = 3
           /\ session[2].author = "critic_agent"
           /\ session[3].author = "reviser_agent"
    /\ pipePc = "running" => Len(session) = Len(invoked) + 1

\* A third run that completed with both stages, the reviser having corrected
\* a statement the critic found inaccurate.
C2_Witness ==
    /\ pipePc = "done"
    /\ pipeRuns = 3
    /\ invoked = <<"critic_agent", "reviser_agent">>
    /\ session[2].text = "inaccurate"
    /\ session[3].text = "corrected"

----------------------------------------------------------------------------
(* callback_logging.py: the two hooks *)

MaxParts == 2

\* A Part: its text and its function call, either of which may be None (a
\* part with neither stands for inline data or a function response).
NoCall == [some |-> FALSE, v |-> [name |-> "", args |-> NoneStr]]

FunctionCalls ==
    { [name |-> "llm_auditor", args |-> [some |-> TRUE, v |-> "{request: s1}"]],
      [name |-> "llm_auditor", args |-> NoneStr] }

Parts ==
    [text : {NoneStr, [some |-> TRUE, v |-> ""], [some |-> TRUE, v |-> "a"],
             [some |-> TRUE, v |-> "b"]},
     function_call : {NoCall} \cup { Some(f) : f \in FunctionCalls }]

SeqsUpTo(S, n) == UNION { [1..k -> S] : k \in 0..n }

\* Content.parts: None, or a list of up to MaxParts parts.
PartLists == {None} \cup { Some(ps) : ps \in SeqsUpTo(Parts, MaxParts) }

Contents == [role : {"user", "model"}, parts : PartLists]

\* Earlier turns of the conversation, before the last message.
EarlierTurns ==
    { <<>>,
      << [role |-> "user",
          parts |-> Some(<< [text |-> [some |-> TRUE, v |-> "b"],
                            function_call |-> NoCall] >>)] >>,
      << [role |-> "user", parts |-> Some(<<>>)],
         [role |-> "model",
          parts |-> Some(<< [text |-> [some |-> TRUE, v |-> "a"],
                            function_call |-> NoCall] >>)] >> }

\* LlmRequest: contents is None, empty, or ends with any Content.
Requests ==
    { [contents |-> None], [contents |-> Some(<<>>)] }
    \cup { [contents |-> Some(e \o <<c>>)] : e \in EarlierTurns, c \in Contents }

\* LlmResponse: content is None or any Content.
Responses ==
    { [content |-> [some |-> FALSE, v |-> [role |-> "model", parts |-> None]]] }
    \cup { [content |-> Some(c)] : c \in Contents }

AgentNames == {"fact_checking_assistant", "critic_agent"}

\* The f-strings of lines 16, 22 and 26.
QueryLine(agent, text) == <<"[query to ", agent, "]: ", text>>
ResponseLine(agent, text) == <<"[response from ", agent, "]: ", text>>
CallLine(agent, fc) ==
    <<"[function call from ", agent, "]: ", fc.name, "(", Str(fc.args), ")">>

\* What a hook call did: whether it raised, what it returned, the lines it
\* logged and the argument as the call left it.
HookResult(raised, ret, lines, argAfter) ==
    [raised |-> raised, ret |-> ret, lines |-> lines, argAfter |-> argAfter]

\* A variant that reads the first message, contents[0], not the last.
log_query_to_model_MutFirstMessage(agent, req) ==
    IF ~Truthy(req.contents) THEN HookResult(FALSE, "None", <<>>, req)
    ELSE IF Item(req.contents, 0).role # "user"
         THEN HookResult(FALSE, "None", <<>>, req)
    ELSE IF ~Truthy(Item(req.contents, 0).parts)
         THEN HookResult(FALSE, "None", <<>>, req)
    ELSE IF ~TruthyStr(Item(Item(req.contents, 0).parts, 0).text)
         THEN HookResult(FALSE, "None", <<>>, req)
    ELSE HookResult(FALSE, "None",
             << QueryLine(agent, Item(Item(req.contents, 0).parts, 0).text.v) >>,
             req)

\* A variant without the two truthiness checks before the indexing.
log_query_to_model_MutNoGuard(agent, req) ==
    IF ItemRaises(req.contents, -1)
    THEN HookResult(TRUE, "None", <<>>, req)
    ELSE IF Item(req.contents, -1).role # "user"
         THEN HookResult(FALSE, "None", <<>>, req)
    ELSE IF ItemRaises(Item(req.contents, -1).parts, 0)
         THEN HookResult(TRUE, "None", <<>>, req)
    ELSE IF ~TruthyStr(Item(Item(req.contents, -1).parts, 0).text)
         THEN HookResult(FALSE, "None", <<>>, req)
    ELSE HookResult(FALSE, "None",
             << QueryLine(agent, Item(Item(req.contents, -1).parts, 0).text.v) >>,
             req)

\* Lines 11-16.  `and` short-circuits, so contents[-1] and parts[0] are read
\* only of lists that are neither None nor empty; the function has no return
\* statement and assigns to nothing.
log_query_to_model(agent, req) ==
    IF ~Truthy(req.contents) THEN HookResult(FALSE, "None", <<>>, req)
    ELSE IF ItemRaises(req.contents, -1)
         THEN HookResult(TRUE, "None", <<>>, req)
    ELSE IF Item(req.contents, -1).role # "user"
         THEN HookResult(FALSE, "None", <<>>, req)
    ELSE IF ~Truthy(Item(req.contents, -1).parts)
         THEN HookResult(FALSE, "None", <<>>, req)
    ELSE IF ItemRaises(Item(req.contents, -1).parts, 0)
         THEN HookResult(TRUE, "None", <<>>, req)
    ELSE IF ~TruthyStr(Item(Item(req.contents, -1).parts, 0).text)
         THEN HookResult(FALSE, "None", <<>>, req)
    ELSE HookResult(FALSE, "None",
             << QueryLine(agent, Item(Item(req.contents, -1).parts, 0).text.v) >>,
             req)

\* A variant with `if` for `elif`: a part with both is logged twice.
PartLines_MutIfNotElif(agent, part) ==
    (IF TruthyStr(part.text) THEN << ResponseLine(agent, part.text.v) >> ELSE <<>>)
    \o (IF part.function_call.some
        THEN << CallLine(agent, part.function_call.v) >> ELSE <<>>)

\* Lines 21-26: the lines one part is logged as.
PartLines(agent, part) ==
    IF TruthyStr(part.text) THEN << ResponseLine(agent, part.text.v) >>
    ELSE IF part.function_call.some
         THEN << CallLine(agent, part.function_call.v) >>
    ELSE <<>>

\* Line 20: the loop over the parts.
RECURSIVE AllPartLines(_, _)
AllPartLines(agent, parts) ==
    IF parts = <<>> THEN <<>>
    ELSE PartLines(agent, Head(parts)) \o AllPartLines(agent, Tail(parts))

\* Lines 18-26.
log_model_response(agent, resp) ==
    IF ~(resp.content.some /\ Truthy(resp.content.v.parts))
    THEN HookResult(FALSE, "None", <<>>, resp)
    ELSE HookResult(FALSE, "None",
                    AllPartLines(agent, resp.content.v.parts.v), resp)

HookCall(hook, agent, arg, res) ==
    [hook |-> hook, agent |-> agent, arg |-> arg, argAfter |-> res.argAfter,
     raised |-> res.raised, ret |-> res.ret, lines |-> res.lines,
     logBefore |-> log]

\* The framework is about to call the model of some agent:
\* before_model_callback.
BeforeModelCallback ==
    /\ hookPc = "idle"
    /\ \E agent \in AgentNames, req \in Requests :
         LET res == log_query_to_model(agent, req) IN
           /\ lastHook' = HookCall("log_query_to_model", agent, req, res)
           /\ log' = log \o res.lines
    /\ hookPc' = "called"
    /\ UNCHANGED exceptHooks

\* The model of some agent has answered: after_model_callback.
AfterModelCallback ==
    /\ hookPc = "idle"
    /\ \E agent \in AgentNames, resp \in Responses :
         LET res == log_model_response(agent, resp) IN
           /\ lastHook' = HookCall("log_model_response", agent, resp, res)
           /\ log' = log \o res.lines
    /\ hookPc' = "called"
    /\ UNCHANGED exceptHooks

\* A process in which the sink is open, something may have been logged
\* already, and the framework is about to call one of the hooks.
InitHooks ==
    /\ StartupDone
    /\ PipeIdle
    /\ sinkOpens = 1
    /\ sinkCloses = 0
    /\ log \in { <<>>, << QueryLine("fact_checking_assistant", "b") >> }
    /\ hookPc = "idle"
    /\ lastHook = NoHookCall
    /\ CliIdle
    /\ HttpIdle

NextHooks ==
    \/ BeforeModelCallback
    \/ AfterModelCallback

SpecHooks == InitHooks /\ [][NextHooks]_vars

----------------------------------------------------------------------------
(* C3 *)

QueryCalled == hookPc = "called" /\ lastHook.hook = "log_query_to_model"

\* The last message of a request that has one.
HasLast(req) == req.contents.some /\ req.contents.v # <<>>
Last(req) == req.contents.v[Len(req.contents.v)]

PartsOf(c) == IF c.parts.some THEN c.parts.v ELSE <<>>

\* The message's first part carries non-empty text.
FirstPartHasText(c) == PartsOf(c) # <<>> /\ TruthyStr(PartsOf(c)[1].text)

\* Some part of the message carries non-empty text.
HasText(c) == \E i \in 1..Len(PartsOf(c)) : TruthyStr(PartsOf(c)[i].text)

TextsOf(c) ==
    { PartsOf(c)[i].text.v : i \in { j \in 1..Len(PartsOf(c)) :
                                       TruthyStr(PartsOf(c)[j].text) } }

\* C3 as amended: the before-call hook logs exactly one line, tagged with
\* the agent name and carrying the text of the last message's first part,
\* when the last message has role "user" and that first part has non-empty
\* text; it logs nothing otherwise (another role, no first part, a first
\* part without text, no messages).
C3_LogsFirstPartOfLastUserMessage ==
    QueryCalled =>
        LET req == lastHook.arg IN
          IF HasLast(req) /\ Last(req).role = "user" /\ FirstPartHasText(Last(req))
          THEN /\ lastHook.lines =
                    << QueryLine(lastHook.agent, PartsOf(Last(req))[1].text.v) >>
               /\ log = lastHook.logBefore \o lastHook.lines
          ELSE /\ lastHook.lines = <<>>
               /\ log = lastHook.logBefore

\* The hook logged the text "a" of a last user message that follows two
\* earlier turns, the last of which is the model's.
C3_Witness ==
    /\ QueryCalled
    /\ Len(lastHook.arg.contents.v) = 3
    /\ lastHook.lines = << QueryLine("critic_agent", "a") >>
    /\ Len(log) = 2

\* C3 as claimed: one line carrying the message's text whenever the last
\* message has role "user" and non-empty text, nothing otherwise.
C3_Original ==
    QueryCalled =>
        LET req == lastHook.arg IN
          IF HasLast(req) /\ Last(req).role = "user" /\ HasText(Last(req))
          THEN /\ Len(lastHook.lines) = 1
               /\ \E t \in TextsOf(Last(req)) :
                    lastHook.lines[1] = QueryLine(lastHook.agent, t)
          ELSE lastHook.lines = <<>>

----------------------------------------------------------------------------
(* C4 *)

ResponseCalled == hookPc = "called" /\ lastHook.hook = "log_model_response"

\* The parts of a response (none when it has no content or no part list).
ResponseParts(resp) ==
    IF resp.content.some THEN PartsOf(resp.content.v) ELSE <<>>

\* A text part carries non-empty text; a function-call part carries a
\* function call and no text.
IsTextPart(p) == TruthyStr(p.text)
IsCallPart(p) == p.function_call.some /\ ~TruthyStr(p.text)

\* The positions of the text and function-call parts, in part order.
LoggedPositions(ps) ==
    LET Logged(i) == IsTextPart(ps[i]) \/ IsCallPart(ps[i])
    IN SelectSeq([i \in 1..Len(ps) |-> i], Logged)

\* C4: for a response with N text parts and M function-call parts the
\* after-call hook logs exactly N + M lines, the k-th line for the k-th such
\* part: a "response" line carrying the text of a text part, a "function
\* call" line name(args) for a function-call part.
C4_OneLinePerTextOrCallPart ==
    ResponseCalled =>
        LET ps == ResponseParts(lastHook.arg)
            pos == LoggedPositions(ps)
            N == Cardinality({ i \in 1..Len(ps) : IsTextPart(ps[i]) })
            M == Cardinality({ i \in 1..Len(ps) : IsCallPart(ps[i]) })
        IN /\ Len(lastHook.lines) = N + M
           /\ Len(pos) = N + M
           /\ \A k \in 1..Len(lastHook.lines) :
                IF IsTextPart(ps[pos[k]])
                THEN lastHook.lines[k] =
                       <<"[response from ", lastHook.agent, "]: ",
                         ps[pos[k]].text.v>>
                ELSE lastHook.lines[k] =
                       <<"[function call from ", lastHook.agent, "]: ",
                         ps[pos[k]].function_call.v.name, "(",
                         Str(ps[pos[k]].function_call.v.args), ")">>
           /\ log = lastHook.logBefore \o lastHook.lines

\* A response whose first part is a function call (with an empty text) and
\* whose second part is text: two lines, the call's first.
C4_Witness ==
    /\ ResponseCalled
    /\ Len(ResponseParts(lastHook.arg)) = 2
    /\ ResponseParts(lastHook.arg)[1].text = [some |-> TRUE, v |-> ""]
    /\ lastHook.lines =
         << <<"[function call from ", "fact_checking_assistant", "]: ",
              "llm_auditor", "(", "{request: s1}", ")">>,
            <<"[response from ", "fact_checking_assistant", "]: ", "a">> >>

----------------------------------------------------------------------------
(* C9 *)

\* C9: whatever request or response a hook is given, it raises nothing,
\* returns None, leaves its argument as it was, and the log keeps what it
\* held before the call, followed by the call's lines.
C9_HooksOnlyLog ==
    hookPc = "called" =>
        /\ ~lastHook.raised
        /\ lastHook.ret = "None"
        /\ lastHook.argAfter = lastHook.arg
        /\ Len(log) >= Len(lastHook.logBefore)
        /\ SubSeq(log, 1, Len(lastHook.logBefore)) = lastHook.logBefore

\* A degenerate input was given, after an earlier line was logged: a request
\* with an empty list of contents, or a response whose only part has neither
\* text nor a function call.
C9_Witness ==
    /\ hookPc = "called"
    /\ \/ /\ lastHook.hook = "log_query_to_model"
          /\ lastHook.arg.contents = Some(<<>>)
       \/ /\ lastHook.hook = "log_model_response"
          /\ ResponseParts(lastHook.arg) =
               << [text |-> NoneStr, function_call |-> NoCall] >>
    /\ lastHook.lines = <<>>
    /\ Len(log) = 1

----------------------------------------------------------------------------
(* centralblack-backend/main.py: the HTTP stub *)

MaxPromptLen == 2

\* The characters of a prompt: an ASCII letter and a letter outside cp1252.
PromptChars == {"a", "\\u03bb"}

\* str.upper() on one character.
UpperChar(c) ==
    CASE c = "a" -> "A"
      [] c = "\\u03bb" -> "\\u039b"
      [] OTHER -> c

\* str.upper()
Upper(s) == [i \in 1..Len(s) |-> UpperChar(s[i])]

\* Whether print can write the text to a standard output of this encoding
\* (print raises UnicodeEncodeError otherwise).
Cp1252Chars == {"a", "A"}

Encodable(s, enc) ==
    enc = "utf-8" \/ \A i \in 1..Len(s) : s[i] \in Cp1252Chars

\* JSON values of a request body's fields.
JAbsent == [kind |-> "absent", s |-> <<>>]
JNull == [kind |-> "null", s |-> <<>>]
JNumber == [kind |-> "number", s |-> <<>>]
JString(s) == [kind |-> "string", s |-> s]

JMessage(role, content, source) ==
    [role |-> role, content |-> content, source |-> source]

PromptValues ==
    { JAbsent, JNull, JNumber }
    \cup { JString(s) : s \in SeqsUpTo(PromptChars, MaxPromptLen) }

UserTurn == JMessage(JString(<<"u">>), JString(<<"h", "i">>), JAbsent)
AgentTurn == JMessage(JString(<<"m">>), JString(<<"o", "k">>), JString(<<"g">>))
NullSourceTurn == JMessage(JString(<<"u">>), JString(<<>>), JNull)
NoRoleTurn == JMessage(JAbsent, JString(<<"h", "i">>), JAbsent)
NumberContentTurn == JMessage(JString(<<"u">>), JNumber, JAbsent)

HistoryValues ==
    { [kind |-> "absent", items |-> <<>>],
      [kind |-> "string", items |-> <<>>],
      [kind |-> "array", items |-> <<>>],
      [kind |-> "array", items |-> <<UserTurn, AgentTurn>>],
      [kind |-> "array", items |-> <<NullSourceTurn>>],
      [kind |-> "array", items |-> <<NoRoleTurn>>],
      [kind |-> "array", items |-> <<UserTurn, NumberContentTurn>>] }

\* A request body: text that is not JSON, or a JSON object.
NotJson == [json |-> FALSE, prompt |-> JAbsent,
            history |-> [kind |-> "absent", items |-> <<>>]]

Bodies ==
    {NotJson}
    \cup { [json |-> TRUE, prompt |-> p, history |-> h] :
             p \in PromptValues, h \in HistoryValues }

\* Lines 10-13: role and content are strings, source is a string or null and
\* may be left out.
ValidMessage(m) ==
    /\ m.role.kind = "string"
    /\ m.content.kind = "string"
    /\ m.source.kind \in {"absent", "null", "string"}

\* A variant in which history may be left out (Optional[List[Message]]).
OrchestrateRequestMutHistoryOptional(b) ==
    /\ b.json
    /\ b.prompt.kind = "string"
    /\ b.history.kind \in {"absent", "array"}
    /\ \A i \in 1..Len(b.history.items) : ValidMessage(b.history.items[i])

\* Lines 15-17 and 28: the body the framework accepts as the handler's
\* request parameter.
OrchestrateRequest(b) ==
    /\ b.json
    /\ b.prompt.kind = "string"
    /\ b.history.kind = "array"
    /\ \A i \in 1..Len(b.history.items) : ValidMessage(b.history.items[i])

Outcome(status, reply, source, detail) ==
    [status |-> status, reply |-> reply, source |-> source, detail |-> detail]

\* The framework's own answers: a body that fails validation, and an
\* exception that leaves the handler and is no HTTPException.
ValidationError == Outcome(422, <<>>, "", "validation error")
ServerError == Outcome(500, <<>>, "", "Internal Server Error")

\* Lines 41-45: the try block.  Neither str.upper, nor the f-string, nor
\* OrchestrateResponse(reply=<str>, source=<str>) raises.
TryBlock(prompt) ==
    [raised |-> "",
     value |-> Outcome(200,
                 <<"El orquestador ha procesado tu prompt: '">>
                   \o Upper(prompt) \o <<"'">>,
                 "app_agent (Simulado)", "")]

Exchange(body, outcome, ran, raised, printed) ==
    [served |-> TRUE, body |-> body, outcome |-> outcome, ran |-> ran,
     raised |-> raised, printed |-> printed]

\* Lines 27-49: what becomes of one request.
orchestrate(body, enc) ==
    IF ~OrchestrateRequest(body)
    THEN Exchange(body, ValidationError, FALSE, "", <<>>)
    ELSE LET prompt == body.prompt.s
             received == <<"Prompt recibido: ">> \o prompt
         IN \* line 33, outside the try statement; the fixed words are ASCII
            IF ~Encodable(prompt, enc)
            THEN Exchange(body, ServerError, TRUE, "UnicodeEncodeError", <<>>)
            ELSE IF TryBlock(prompt).raised = ""
            THEN Exchange(body, TryBlock(prompt).value, TRUE, "", <<received>>)
            \* lines 47-49
            ELSE Exchange(body,
                          Outcome(500, <<>>, "",
                                  "Error interno en el orquestador."),
                          TRUE, TryBlock(prompt).raised,
                          <<received,
                            <<"Error en el orquestador: ">>
                              \o <<TryBlock(prompt).raised>> >>)

\* The server starts with a standard output of either encoding.
InitHttp ==
    /\ StartupDone
    /\ PipeIdle
    /\ SinkUnused
    /\ HooksIdle
    /\ CliIdle
    /\ stdoutEncoding \in {"utf-8", "cp1252"}
    /\ earlier = NoExchange
    /\ latest = NoExchange

\* POST /api/orchestrate.  The server keeps nothing between requests; the
\* model keeps the latest exchange and one earlier exchange.
Orchestrate ==
    /\ \E body \in Bodies : latest' = orchestrate(body, stdoutEncoding)
    /\ \E keep \in BOOLEAN : earlier' = IF keep THEN earlier ELSE latest
    /\ UNCHANGED <<stdoutEncoding, exceptHttp>>

NextHttp == Orchestrate

SpecHttp == InitHttp /\ [][NextHttp]_vars

----------------------------------------------------------------------------
(* C5, C6, C8 *)

\* A body the claims call valid: a JSON object whose prompt is a string and
\* whose history is a list of messages (role and content strings, source a
\* string, null or left out).
WellFormedMessage(m) ==
    /\ m.role.kind = "string"
    /\ m.content.kind = "string"
    /\ m.source.kind # "number"

ValidBody(b) ==
    /\ b.json
    /\ b.prompt.kind = "string"
    /\ b.history.kind = "array"
    /\ \A i \in 1..Len(b.history.items) : WellFormedMessage(b.history.items[i])

\* s occurs in t as a contiguous run.
Contains(t, s) ==
    \E i \in 0..(Len(t) - Len(s)) :
        \A j \in 1..Len(s) : t[i + j] = s[j]

\* C5: every valid request is answered with a reply that contains the
\* upper-cased prompt and with the source "app_agent (Simulado)", and two
\* valid requests with the same prompt are answered identically, whatever
\* their histories and whatever was served between them.
C5_EchoDependsOnlyOnPrompt ==
    /\ (latest.served /\ ValidBody(latest.body)) =>
          /\ latest.outcome.status = 200
          /\ Contains(latest.outcome.reply, Upper(latest.body.prompt.s))
          /\ latest.outcome.source = "app_agent (Simulado)"
    /\ (/\ latest.served /\ ValidBody(latest.body)
        /\ earlier.served /\ ValidBody(earlier.body)
        /\ latest.body.prompt = earlier.body.prompt) =>
          latest.outcome = earlier.outcome

\* C6: a request whose body is not valid gets a 4xx answer and the handler
\* body does not run for it.
C6_InvalidBodyIsClientError ==
    (latest.served /\ ~ValidBody(latest.body)) =>
        /\ latest.outcome.status \in 400..499
        /\ ~latest.ran
        /\ latest.printed = <<>>

\* An invalid body whose only fault is the type of one message's content,
\* sent after a request that was answered with 200.
C6_Witness ==
    /\ latest.served
    /\ latest.body.prompt = JString(<<"a">>)
    /\ latest.body.history.items = <<UserTurn, NumberContentTurn>>
    /\ latest.outcome.status = 422
    /\ earlier.outcome.status = 200

\* C8: whenever processing a request raises, the caller gets the fixed 500
\* with the detail "Error interno en el orquestador." and the error was
\* logged.
C8_ProcessingErrorsBecomeFixed500 ==
    (latest.served /\ latest.raised # "") =>
        /\ latest.outcome.status = 500
        /\ latest.outcome.detail = "Error interno en el orquestador."
        /\ \E i \in 1..Len(latest.printed) :
             latest.printed[i][1] = "Error en el orquestador: "

----------------------------------------------------------------------------
(* app_agent/agent.py: main and run_prompt *)

MaxEvents == 2
MaxEventParts == 2
MaxModelCalls == 1

\* sys.argv[1:] as the shell passes it.
ArgLists == { <<>>, <<"q">>, <<"why", "not">> }

\* " ".join(words)
RECURSIVE Join(_)
Join(words) ==
    IF Len(words) = 0 THEN <<>>
    ELSE IF Len(words) = 1 THEN <<words[1]>>
    ELSE <<words[1], " ">> \o Join(Tail(words))

\* Lines 100-104: the query, and what main prints when there is none.
Query(args) ==
    IF Len(args) > 0 THEN Join(args)
    ELSE <<"What is the capital of France?">>

UsageLines(args) ==
    IF Len(args) > 0 THEN <<>>
    ELSE << <<"Usage: python3 app_agent/agent.py <your question here>">> >>

\* An event's part: its text, and its tool code with its outputs.
NoToolCode == [some |-> FALSE, v |-> [outputs |-> NoneStr]]

EventParts ==
    [text : {NoneStr, [some |-> TRUE, v |-> "a"]},
     tool_code : {NoToolCode, Some([outputs |-> NoneStr]),
                  Some([outputs |-> [some |-> TRUE, v |-> "o"]])}]

\* Event.content is Optional, as LlmResponse.content is (callback_logging.py
\* line 19 checks it); its parts may be None or empty.
NoContent == [some |-> FALSE, v |-> [parts |-> None]]

Events ==
    { [author |-> "fact_checking_assistant", content |-> c] :
        c \in {NoContent}
              \cup { Some([parts |-> ps]) :
                       ps \in {None}
                              \cup { Some(l) :
                                       l \in SeqsUpTo(EventParts, MaxEventParts) } } }

\* Lines 60-63: what one part prints.
PrintPart(author, part) ==
    IF TruthyStr(part.text) THEN << <<"** ", author, ": ", part.text.v>> >>
    ELSE IF part.tool_code.some /\ TruthyStr(part.tool_code.v.outputs)
         THEN << <<"** tool output (", author, "): ",
                   part.tool_code.v.outputs.v>> >>
    ELSE <<>>

RECURSIVE PrintParts(_, _)
PrintParts(author, parts) ==
    IF parts = <<>> THEN <<>>
    ELSE PrintPart(author, Head(parts)) \o PrintParts(author, Tail(parts))

\* Lines 56-63: the loop body for one event.  event.content.parts is read
\* without a check of event.content: on None it raises AttributeError.
HandleEvent(event) ==
    IF ~event.content.some
    THEN [raised |-> "AttributeError", lines |-> <<>>]
    ELSE IF ~Truthy(event.content.v.parts)
         THEN [raised |-> "", lines |-> <<>>]
    ELSE [raised |-> "",
          lines |-> PrintParts(event.author, event.content.v.parts.v)]

\* What the root agent's model is asked and answers during a run.
CliRequests ==
    { [contents |-> Some(<< [role |-> "user",
                            parts |-> Some(<< [text |-> [some |-> TRUE, v |-> "a"],
                                              function_call |-> NoCall] >>)] >>)],
      [contents |-> Some(<< [role |-> "user",
                            parts |-> Some(<< [text |-> NoneStr,
                                              function_call |-> NoCall] >>)] >>)] }

CliResponses ==
    { [content |-> Some([role |-> "model",
                         parts |-> Some(<< [text |-> NoneStr,
                                           function_call |-> Some(f)] >>)])] :
        f \in FunctionCalls }
    \cup { [content |-> Some([role |-> "model",
                              parts |-> Some(<< [text |-> [some |-> TRUE, v |-> "b"],
                                                function_call |-> NoCall] >>)])] }

\* The environments and .env files of the command-line runs.
CliEnvironments ==
    { e \in Environments :
        /\ e["GOOGLE_GENAI_USE_VERTEXAI"] \in {None, Some(<<"0">>)}
        /\ e["MODEL"] \in {None, Some(<<"x">>)}
        /\ e["GOOGLE_CLOUD_PROJECT"] = Some(<<"x">>)
        /\ e["GOOGLE_CLOUD_LOCATION"] \in {None, Some(<<"x">>)} }

CliDotenvFiles ==
    { e \in DotenvFiles :
        /\ e["GOOGLE_GENAI_USE_VERTEXAI"] = None
        /\ e["MODEL"] \in {None, Some(<<"x">>)}
        /\ e["GOOGLE_CLOUD_PROJECT"] = None
        /\ e["GOOGLE_CLOUD_LOCATION"] = None }

\* python3 app_agent/agent.py [words]
InitCli ==
    /\ environ \in CliEnvironments
    /\ dotenv \in CliDotenvFiles
    /\ startPc = "import_callback_logging"
    /\ missing_vars = <<>>
    /\ startError = None
    /\ PipeIdle
    /\ SinkUnused
    /\ HooksIdle
    /\ cliPc = "not_started"
    /\ argv \in ArgLists
    /\ stdout = <<>>
    /\ yielded = <<>>
    /\ handled = 0
    /\ modelCalls = 0
    /\ cliError = ""
    /\ HttpIdle

cliFrame == <<startVars, pipeVars, hookPc, lastHook, httpVars>>

\* Lines 111-112 and 66-104: the module body passed the check, main builds
\* the agent, the runner and the session and settles the query.
MainSetup ==
    /\ startPc = "validated"
    /\ cliPc = "not_started"
    /\ stdout' = stdout \o UsageLines(argv)
    /\ cliPc' = "run_prompt"
    /\ UNCHANGED <<argv, yielded, handled, modelCalls, cliError, log,
                   sinkVars, cliFrame>>

\* Lines 47-50: run_prompt prints the query and starts the run.
RunPromptBegin ==
    /\ cliPc = "run_prompt"
    /\ stdout' = Append(stdout, <<"** user: ">> \o Query(argv))
    /\ cliPc' = "streaming"
    /\ UNCHANGED <<argv, yielded, handled, modelCalls, cliError, log,
                   sinkVars, cliFrame>>

\* Between two events the framework calls the root agent's model, with the
\* two hooks around the call (lines 83-84).
StreamModelCall ==
    /\ cliPc = "streaming"
    /\ modelCalls < MaxModelCalls
    /\ \E req \in CliRequests, resp \in CliResponses :
         log' = log
                \o log_query_to_model("fact_checking_assistant", req).lines
                \o log_model_response("fact_checking_assistant", resp).lines
    /\ modelCalls' = modelCalls + 1
    /\ UNCHANGED <<cliPc, argv, stdout, yielded, handled, cliError,
                   sinkVars, cliFrame>>

\* Lines 51-63: the framework yields the next event and the loop body runs
\* on it; an exception in the body leaves run_prompt and main.
StreamEvent ==
    /\ cliPc = "streaming"
    /\ Len(yielded) < MaxEvents
    /\ \E event \in Events :
         /\ yielded' = Append(yielded, event)
         /\ IF HandleEvent(event).raised = ""
            THEN /\ stdout' = stdout \o HandleEvent(event).lines
                 /\ handled' = handled + 1
                 /\ UNCHANGED <<cliPc, cliError>>
            ELSE /\ cliPc' = "crashed"
                 /\ cliError' = HandleEvent(event).raised
                 /\ UNCHANGED <<stdout, handled>>
    /\ UNCHANGED <<argv, modelCalls, log, sinkVars, cliFrame>>

\* The framework's run fails (model, network): nothing catches it.
StreamRaise ==
    /\ cliPc = "streaming"
    /\ cliPc' = "crashed"
    /\ cliError' = "FrameworkError"
    /\ UNCHANGED <<argv, stdout, yielded, handled, modelCalls, log,
                   sinkVars, cliFrame>>

\* The stream ends: run_prompt returns to main.
StreamEnd ==
    /\ cliPc = "streaming"
    /\ cliPc' = "close"
    /\ UNCHANGED <<argv, stdout, yielded, handled, modelCalls, cliError, log,
                   sinkVars, cliFrame>>

\* Line 109.
CloseSink ==
    /\ cliPc = "close"
    /\ sinkCloses' = sinkCloses + 1
    /\ cliPc' = "exited"
    /\ UNCHANGED <<argv, stdout, yielded, handled, modelCalls, cliError, log,
                   sinkOpens, cliFrame>>

NextCli ==
    \/ ImportCallbackLogging
    \/ ImportLlmAuditor
    \/ LoadDotenv
    \/ ValidateOk
    \/ ValidateRaise
    \/ MainSetup
    \/ RunPromptBegin
    \/ StreamModelCall
    \/ StreamEvent
    \/ StreamRaise
    \/ StreamEnd
    \/ CloseSink

SpecCli == InitCli /\ [][NextCli]_vars

----------------------------------------------------------------------------
(* C7 *)

\* The process has ended: the module body raised, main returned, or an
\* exception left main.
ProcessEnded == startPc = "raised" \/ cliPc \in {"exited", "crashed"}

\* C7: the sink is opened once and closed at most once, on every path a
\* process that opened it has closed it once when it ends, and nothing runs
\* (so nothing is logged) after the close.
C7_SinkClosedOnEveryPath ==
    /\ sinkOpens <= 1
    /\ sinkCloses <= sinkOpens
    /\ (ProcessEnded /\ sinkOpens = 1) => sinkCloses = 1
    /\ sinkCloses = 1 => cliPc = "exited"

----------------------------------------------------------------------------
(* C10 *)

\* The line a part is printed as, as the claim has it.
ClaimedPartLines(author, part) ==
    IF part.text.some /\ part.text.v # ""
    THEN << <<"** ", author, ": ", part.text.v>> >>
    ELSE IF part.tool_code.some /\ part.tool_code.v.outputs.some
            /\ part.tool_code.v.outputs.v # ""
         THEN << <<"** tool output (", author, "): ",
                   part.tool_code.v.outputs.v>> >>
    ELSE <<>>

\* The parts of an event; an event without content has none.
EventPartsOf(event) ==
    IF event.content.some /\ event.content.v.parts.some
    THEN event.content.v.parts.v ELSE <<>>

RECURSIVE ClaimedEventLines(_, _)
ClaimedEventLines(author, parts) ==
    IF parts = <<>> THEN <<>>
    ELSE ClaimedPartLines(author, Head(parts))
         \o ClaimedEventLines(author, Tail(parts))

RECURSIVE ClaimedStreamLines(_)
ClaimedStreamLines(events) ==
    IF events = <<>> THEN <<>>
    ELSE ClaimedEventLines(Head(events).author, EventPartsOf(Head(events)))
         \o ClaimedStreamLines(Tail(events))

\* C10: once run_prompt has started, the output is the query line followed
\* by the lines of the events yielded so far, in stream order; every event
\* yielded was handled, and an event without parts stops nothing.
C10_StreamPrintedInOrder ==
    cliPc \in {"streaming", "close", "exited", "crashed"} =>
        /\ stdout = UsageLines(argv)
                    \o << <<"** user: ">> \o Query(argv) >>
                    \o ClaimedStreamLines(yielded)
        /\ handled = Len(yielded)
        /\ cliError \in {"", "FrameworkError"}

====
